---------------------------- MODULE Spec2Model ----------------------------
(***************************************************************************)
(* A model of brimutil's ChecksummedWriter and ChecksummedReader: a writer  *)
(* that embeds a 4-byte big-endian digest of the block after               *)
(* every checksumInterval content bytes, and a reader that skips the       *)
(* digests on Read, maps logical to physical offsets on Seek and checks    *)
(* the block under the cursor on Verify.                                   *)
(*                                                                         *)
(* The writer's delegate is an in-memory sink that may fail part-way       *)
(* through a call; the reader's delegate is a random-access byte source    *)
(* with the semantics of bytes.Reader / os.File (Read returns io.EOF only  *)
(* with 0 bytes at the end, Seek to a negative position fails with 0 and   *)
(* leaves the position alone, Seek past the end is allowed).  The hash is  *)
(* hash/adler32, one of Go's hash.Hash32 implementations.                  *)
(*                                                                         *)
(* NextHighestPowerOfTwo is modelled on 64-bit words given as the sets of  *)
(* the places of their 1 bits.                                             *)
(***************************************************************************)
EXTENDS Integers, Sequences, FiniteSets, TLC

(* Bounds of the model. *)
MaxInterval == 3
MaxContent == 6

Intervals == 1 .. MaxInterval

Min(a, b) == IF a <= b THEN a ELSE b
Max(a, b) == IF a >= b THEN a ELSE b

(* Go slices: v[:n] and v[n:]. *)
Take(v, n) == SubSeq(v, 1, n)
Drop(v, n) == SubSeq(v, n + 1, Len(v))

(* Go's integer division truncates toward zero; % takes the dividend's sign. *)
GoDiv(a, b) == IF a >= 0 THEN a \div b ELSE -((-a) \div b)
GoMod(a, b) == a - b * GoDiv(a, b)

VARIABLES
    checksumInterval,   \* the interval given to both constructors
    cwi,                \* checksummedWriterImpl: delegate, checksumOffset, hash
    sink,               \* the bytes the writer's original delegate has received
    sinkCloseCalls,     \* the number of Close calls the original sink has received
    content,            \* history: the content bytes the sink has accepted
    wstate,             \* history: "open"; "closed" once Close, called on the open
                        \* writer, has sent what it had to send; "broken" once
                        \* the sink has failed a write
    cri,                \* checksummedReaderImpl: delegate, checksumOffset
    src,                \* the bytes of the reader's original delegate
    orig,               \* history: src as it was when the reader was constructed
    pos,                \* the original source's position
    srcCalls,           \* history: calls the last operation made on the original source
    srcCloseCalls,      \* the number of Close calls the original source has received
    rstart,             \* history: logical offset of the last from-start Seek of the
                        \* uncorrupted source (0 at first), -1 once something else
                        \* than Reads and good Verifys has followed it
    rout,               \* history: the bytes the Reads since then have reported
    rclean,             \* history: every reader call since the last good Seek succeeded
    last,               \* the last operation, its arguments and what it returned
    pow                 \* a call of NextHighestPowerOfTwo: its argument v, what it
                        \* returned, and whether it has been made

vars == <<checksumInterval, cwi, sink, sinkCloseCalls, content, wstate, cri, src,
          orig, pos, srcCalls, srcCloseCalls, rstart, rout, rclean, last, pow>>

wvars == <<cwi, sink, sinkCloseCalls, content, wstate>>
rvars == <<cri, src, orig, pos, srcCalls, srcCloseCalls, rstart, rout, rclean>>

-----------------------------------------------------------------------------
(* The hash: hash/adler32.  Its state is the pair (a, b); Sum32 is b<<16 | a. *)

newHash == [a |-> 1, b |-> 0]

RECURSIVE HashWrite(_, _)
HashWrite(h, p) ==
    IF p = <<>> THEN h
    ELSE LET a2 == (h.a + Head(p)) % 65521
         IN  HashWrite([a |-> a2, b |-> (h.b + a2) % 65521], Tail(p))

(* binary.BigEndian.PutUint32(checksum, hash.Sum32()) *)
PutUint32(h) == <<h.b \div 256, h.b % 256, h.a \div 256, h.a % 256>>

-----------------------------------------------------------------------------
(* The writer's delegate. *)

(* The original sink: it accepts budget more bytes in this call and then     *)
(* fails (a negative budget: it never fails).                                *)
SinkWrite(s, p, budget) ==
    IF budget < 0 \/ Len(p) <= budget
    THEN [sink |-> s \o p, n |-> Len(p), err |-> "nil",
          budget |-> IF budget < 0 THEN budget ELSE budget - Len(p)]
    ELSE [sink |-> s \o Take(p, budget), n |-> budget, err |-> "io", budget |-> 0]

(* errDelegate.Write *)
errDelegateWrite(s, budget) ==
    [sink |-> s, n |-> 0, err |-> "closed", budget |-> budget]

delegateWrite(d, s, p, budget) ==
    IF d = "err" THEN errDelegateWrite(s, budget) ELSE SinkWrite(s, p, budget)

(* A count that takes in the digest bytes the sink accepted. *)
AfterChecksumCounted(n, n2) == n + n2

(* _, err = cwi.delegate.Write(cwi.checksum): the count of the digest write  *)
(* is dropped, n stays the count of the content bytes.                       *)
AfterChecksum(n, n2) == n

(* The state of a call of Write: the writer w, the sink s, what is left of  *)
(* v, the count n so far.  Returns the writer, the sink, n and err.         *)
RECURSIVE WriteLoop(_, _, _, _, _)
WriteLoop(w, s, v, n, budget) ==
    IF w.checksumOffset + Len(v) >= checksumInterval
    THEN LET k  == checksumInterval - w.checksumOffset
             r1 == delegateWrite(w.delegate, s, Take(v, k), budget)
         IN  IF r1.err # "nil"
             THEN [w |-> [w EXCEPT !.delegate = "err"], sink |-> r1.sink,
                   n |-> n + r1.n, err |-> r1.err]
             ELSE LET h  == HashWrite(w.hash, Take(v, k))
                      r2 == delegateWrite(w.delegate, r1.sink, PutUint32(h), r1.budget)
                  IN  IF r2.err # "nil"
                      THEN [w |-> [w EXCEPT !.delegate = "err", !.hash = h],
                            sink |-> r2.sink, n |-> AfterChecksum(n + r1.n, r2.n),
                            err |-> r2.err]
                      ELSE WriteLoop([w EXCEPT !.hash = newHash, !.checksumOffset = 0],
                                     r2.sink, Drop(v, k),
                                     AfterChecksum(n + r1.n, r2.n), r2.budget)
    ELSE IF Len(v) > 0
    THEN LET r == delegateWrite(w.delegate, s, v, budget)
         IN  IF r.err # "nil"
             THEN [w |-> [w EXCEPT !.delegate = "err"], sink |-> r.sink,
                   n |-> n + r.n, err |-> r.err]
             ELSE [w |-> [w EXCEPT !.hash = HashWrite(w.hash, v),
                                   !.checksumOffset = w.checksumOffset + r.n],
                   sink |-> r.sink, n |-> n + r.n, err |-> "nil"]
    ELSE [w |-> w, sink |-> s, n |-> n, err |-> "nil"]

(* checksummedWriterImpl.Write *)
cwiWrite(w, s, v, budget) == WriteLoop(w, s, v, 0, budget)

(* A Close that forgets the digest of the last, short block. *)
cwiCloseNoDigest(w, s, budget, closeErr) ==
    [w |-> [w EXCEPT !.delegate = "err"], sink |-> s,
     err |-> IF w.delegate = "err" THEN "already closed" ELSE closeErr,
     closed |-> IF w.delegate = "err" THEN 0 ELSE 1]

(* checksummedWriterImpl.Close; closeErr is what the original sink's Close   *)
(* returns.                                                                  *)
cwiClose(w, s, budget, closeErr) ==
    LET r == IF w.checksumOffset > 0
             THEN delegateWrite(w.delegate, s, PutUint32(w.hash), budget)
             ELSE [sink |-> s, n |-> 0, err |-> "nil", budget |-> budget]
    IN  IF r.err # "nil"
        THEN [w |-> [w EXCEPT !.delegate = "err"], sink |-> r.sink, err |-> r.err,
              closed |-> 0]
        ELSE [w |-> [w EXCEPT !.delegate = "err"], sink |-> r.sink,
              err |-> IF w.delegate = "err" THEN "already closed" ELSE closeErr,
              closed |-> IF w.delegate = "err" THEN 0 ELSE 1]

-----------------------------------------------------------------------------
(* The reader's delegate.  Every result carries the source's new position    *)
(* and the number of calls made on the original source.                      *)

(* The original source's Read into a buffer of length len at position p. *)
SrcRead(p, len) ==
    IF p >= Len(src)
    THEN [n |-> 0, err |-> "EOF", pos |-> p, calls |-> 1]
    ELSE [n |-> Min(len, Len(src) - p), err |-> "nil",
          pos |-> p + Min(len, Len(src) - p), calls |-> 1]

(* The original source's Seek: o is the offset it returns. *)
SrcSeek(p, offset, whence) ==
    LET abs == CASE whence = 0 -> offset
                 [] whence = 1 -> p + offset
                 [] OTHER      -> Len(src) + offset
    IN  IF abs < 0
        THEN [o |-> 0, err |-> "negative position", pos |-> p, calls |-> 1]
        ELSE [o |-> abs, err |-> "nil", pos |-> abs, calls |-> 1]

(* errDelegate.Read, errDelegate.Seek *)
errDelegateRead(p) == [n |-> 0, err |-> "closed", pos |-> p, calls |-> 0]
errDelegateSeek(p) == [o |-> 0, err |-> "closed", pos |-> p, calls |-> 0]

delegateRead(d, p, len) ==
    IF d = "err" THEN errDelegateRead(p) ELSE SrcRead(p, len)

delegateSeek(d, p, offset, whence) ==
    IF d = "err" THEN errDelegateSeek(p) ELSE SrcSeek(p, offset, whence)

(* io.ReadFull(delegate, buf) with len(buf) = len: Reads until buf is full   *)
(* or a Read fails; io.EOF if nothing was read, io.ErrUnexpectedEOF if some. *)
ReadFull(d, p, len) ==
    IF len = 0 THEN [n |-> 0, err |-> "nil", pos |-> p, calls |-> 0]
    ELSE LET r == delegateRead(d, p, len)
         IN  IF r.err = "closed" THEN r
             ELSE IF r.n = len THEN r
             ELSE IF r.n = 0 THEN r
             ELSE [n |-> r.n, err |-> "ErrUnexpectedEOF", pos |-> r.pos,
                   calls |-> r.calls + 1]

IsEOF(err) == err \in {"EOF", "ErrUnexpectedEOF"}

-----------------------------------------------------------------------------
(* The reader. *)

(* A Seek that counts one digest per interval + 4 bytes of content. *)
SeekTargetWideBlocks(offset) == offset + GoDiv(offset, checksumInterval + 4) * 4

(* offset + (offset / checksumInterval * 4): the physical target of Seek *)
SeekTarget(offset) == offset + GoDiv(offset, checksumInterval) * 4

(* o - (o / checksumInterval * 4): the offset Seek returns *)
SeekResult(o) == o - GoDiv(o, checksumInterval) * 4

(* A Seek that takes the offset in the block modulo the interval alone. *)
SeekChecksumOffsetNarrow(o) == GoMod(o, checksumInterval)

(* int(o % (checksumInterval + 4)) *)
SeekChecksumOffset(o) == GoMod(o, checksumInterval + 4)

(* The length Read cuts v to: v[:checksumInterval-checksumOffset] when v     *)
(* would pass the end of the block.                                          *)
ReadLen(r, len) ==
    IF r.checksumOffset + len > checksumInterval
    THEN checksumInterval - r.checksumOffset ELSE len

(* A Read that forgets to take the digest bytes off its count. *)
TruncatedCountKeepsAll(n, n2) == n

(* n -= 4 - n2: the count when the 4 bytes after the read are not all there. *)
TruncatedCount(n, n2) == n - (4 - n2)

(* checksummedReaderImpl.Read with len(v) = len at source position p.  data  *)
(* is what the delegate left in v.                                           *)
criRead(r, p, len) ==
    IF ReadLen(r, len) < 0
    THEN [cri |-> r, pos |-> p, n |-> 0, err |-> "panic", calls |-> 0, data |-> <<>>]
    ELSE
    LET l1   == ReadLen(r, len)
        r1   == delegateRead(r.delegate, p, l1)
        off1 == r.checksumOffset + r1.n
        data == SubSeq(src, p + 1, p + r1.n)
    IN  IF r1.err = "EOF"
        THEN [cri |-> [r EXCEPT !.checksumOffset = off1], pos |-> r1.pos,
              n |-> Max(r1.n - 4, 0), err |-> "EOF", calls |-> r1.calls,
              data |-> data]
        ELSE IF r1.err = "nil"
        THEN LET r2 == ReadFull(r.delegate, r1.pos, 4)
                 n2 == IF IsEOF(r2.err) THEN TruncatedCount(r1.n, r2.n) ELSE r1.n
             IN  IF off1 = checksumInterval
                 THEN [cri |-> [r EXCEPT !.checksumOffset = 0], pos |-> r2.pos,
                       n |-> n2, err |-> "nil", calls |-> r1.calls + r2.calls,
                       data |-> data]
                 ELSE IF IsEOF(r2.err)
                 THEN [cri |-> [r EXCEPT !.checksumOffset = off1], pos |-> r2.pos,
                       n |-> n2, err |-> "nil", calls |-> r1.calls + r2.calls,
                       data |-> data]
                 ELSE LET r3 == delegateSeek(r.delegate, r2.pos, -r2.n, 1)
                      IN  [cri |-> [r EXCEPT !.checksumOffset = off1],
                           pos |-> r3.pos, n |-> n2, err |-> "nil",
                           calls |-> r1.calls + r2.calls + r3.calls, data |-> data]
        ELSE [cri |-> [r EXCEPT !.checksumOffset = off1], pos |-> r1.pos,
              n |-> r1.n, err |-> r1.err, calls |-> r1.calls, data |-> data]

(* The last lines of Seek: the absolute seek and what is returned. *)
SeekTo(r, p, offset, calls) ==
    LET s == delegateSeek(r.delegate, p, SeekTarget(offset), 0)
    IN  [cri |-> [r EXCEPT !.checksumOffset = SeekChecksumOffset(s.o)],
         pos |-> s.pos, n |-> SeekResult(s.o), err |-> s.err,
         calls |-> calls + s.calls]

(* An invalid whence that rewinds the source to find where it is. *)
SeekInvalidWhenceRewinds(r, p) ==
    LET s1 == delegateSeek(r.delegate, p, 0, 0)
    IN  [cri |-> r, pos |-> s1.pos, n |-> s1.o, err |-> "invalid whence",
         calls |-> s1.calls]

(* The default case of Seek's switch: o, _ := cri.delegate.Seek(0, 1) and    *)
(* return o, fmt.Errorf("invalid whence %d", whence)                         *)
SeekInvalidWhence(r, p) ==
    LET s1 == delegateSeek(r.delegate, p, 0, 1)
    IN  [cri |-> r, pos |-> s1.pos, n |-> s1.o, err |-> "invalid whence",
         calls |-> s1.calls]

(* checksummedReaderImpl.Seek *)
criSeek(r, p, offset, whence) ==
    IF whence = 0 THEN SeekTo(r, p, offset, 0)
    ELSE IF whence \in {1, 2}
    THEN LET s1 == delegateSeek(r.delegate, p, 0, whence)
             r1 == [r EXCEPT !.checksumOffset = SeekChecksumOffset(s1.o)]
         IN  IF s1.err # "nil"
             THEN [cri |-> r1, pos |-> s1.pos, n |-> SeekResult(s1.o),
                   err |-> s1.err, calls |-> s1.calls]
             ELSE SeekTo(r1, s1.pos, SeekResult(s1.o) + offset, s1.calls)
    ELSE SeekInvalidWhence(r, p)

(* A Verify that seeks back by originalOffset from where it is. *)
VerifyRestoreRelative(d, p, originalOffset) == delegateSeek(d, p, originalOffset, 1)

(* The end of Verify: cri.delegate.Seek(originalOffset, 0) *)
VerifyRestore(d, p, originalOffset) == delegateSeek(d, p, originalOffset, 0)

(* checksummedReaderImpl.Verify.  read: the source has been asked for the    *)
(* block; restore: the seek back to originalOffset has been made.            *)
criVerify(r, p) ==
    LET s0 == delegateSeek(r.delegate, p, 0, 1)
    IN  IF s0.err # "nil"
        THEN [pos |-> s0.pos, ok |-> FALSE, err |-> s0.err, calls |-> s0.calls,
              read |-> FALSE, restore |-> FALSE]
        ELSE
    LET s1 == IF r.checksumOffset > 0
              THEN delegateSeek(r.delegate, s0.pos, -r.checksumOffset, 1)
              ELSE [o |-> s0.o, err |-> "nil", pos |-> s0.pos, calls |-> 0]
    IN  IF s1.err # "nil"
        THEN [pos |-> s1.pos, ok |-> FALSE, err |-> s1.err,
              calls |-> s0.calls + s1.calls, read |-> FALSE, restore |-> FALSE]
        ELSE
    LET rf    == ReadFull(r.delegate, s1.pos, checksumInterval + 4)
        buf   == SubSeq(src, s1.pos + 1, s1.pos + rf.n)
        calls == s0.calls + s1.calls + rf.calls
    IN  IF rf.err = "ErrUnexpectedEOF" /\ rf.n < 4
        THEN [pos |-> rf.pos, ok |-> FALSE, err |-> "panic", calls |-> calls,
              read |-> rf.calls > 0, restore |-> FALSE]
        ELSE IF rf.err # "nil" /\ rf.err # "ErrUnexpectedEOF"
        THEN [pos |-> rf.pos, ok |-> FALSE, err |-> rf.err, calls |-> calls,
              read |-> rf.calls > 0, restore |-> FALSE]
        ELSE
    LET nc       == IF rf.err = "ErrUnexpectedEOF" THEN rf.n - 4 ELSE checksumInterval
        block    == Take(buf, nc)
        checksum == SubSeq(buf, nc + 1, nc + 4)
        verified == (checksum = PutUint32(HashWrite(newHash, block)))
        s2       == VerifyRestore(r.delegate, rf.pos, s0.o)
    IN  [pos |-> s2.pos, ok |-> verified, err |-> s2.err, calls |-> calls + s2.calls,
         read |-> rf.calls > 0, restore |-> s2.calls > 0]

(* A Close that closes the source and keeps it as the delegate. *)
criCloseKeepsDelegate(r, closeErr) ==
    [cri |-> r,
     err |-> IF r.delegate = "err" THEN "already closed" ELSE closeErr,
     closed |-> IF r.delegate = "err" THEN 0 ELSE 1]

(* checksummedReaderImpl.Close; closeErr is what the original source's Close *)
(* returns.                                                                  *)
criClose(r, closeErr) ==
    [cri |-> [r EXCEPT !.delegate = "err"],
     err |-> IF r.delegate = "err" THEN "already closed" ELSE closeErr,
     closed |-> IF r.delegate = "err" THEN 0 ELSE 1]

-----------------------------------------------------------------------------
(* NextHighestPowerOfTwo.  A uint64 is the set of the places of its 1 bits   *)
(* (place 0 the least significant), so that the arithmetic is modulo         *)
(* 2^WordBits.                                                               *)
WordBits == 64
BitPlaces == 0 .. WordBits - 1

Lowest(x) == CHOOSE m \in x : \A j \in x : m <= j

(* v--: the lowest 1 bit becomes 0 and the 0 bits below it 1; 0 wraps to all 1. *)
Decrement(x) ==
    IF x = {} THEN BitPlaces
    ELSE (x \ {Lowest(x)}) \cup (0 .. Lowest(x) - 1)

(* v++: the lowest 0 bit becomes 1 and the 1 bits below it 0; all 1 wraps to 0. *)
Increment(x) ==
    IF x = BitPlaces THEN {}
    ELSE LET z == Lowest(BitPlaces \ x) IN (x \ (0 .. z)) \cup {z}

(* v >> k *)
ShiftRight(x, k) == {i - k : i \in {j \in x : j >= k}}

(* v |= v >> k *)
OrShift(x, k) == x \cup ShiftRight(x, k)

(* The same without the last shift: the 32-bit form of the bit hack. *)
NextHighestPowerOfTwo32(v) ==
    Increment(OrShift(OrShift(OrShift(OrShift(OrShift(Decrement(v), 1), 2), 4), 8),
                      16))

NextHighestPowerOfTwo(v) ==
    Increment(OrShift(OrShift(OrShift(OrShift(OrShift(OrShift(Decrement(v), 1), 2),
                                              4), 8), 16), 32))

-----------------------------------------------------------------------------
NoOp == [op |-> "new", len |-> 0, offset |-> 0, whence |-> 0, n |-> 0,
         err |-> "nil", ok |-> FALSE, closedBefore |-> FALSE, read |-> FALSE,
         restore |-> FALSE]

NoPow == [v |-> {}, out |-> {}, done |-> FALSE]

Init ==
    /\ pow = NoPow
    /\ checksumInterval \in Intervals
    /\ cwi = [delegate |-> "sink", checksumOffset |-> 0, hash |-> newHash]
    /\ sink = <<>>
    /\ sinkCloseCalls = 0
    /\ content = <<>>
    /\ wstate = "open"
    /\ cri = [delegate |-> "none", checksumOffset |-> 0]
    /\ src = <<>>
    /\ orig = <<>>
    /\ pos = 0
    /\ srcCalls = 0
    /\ srcCloseCalls = 0
    /\ rstart = 0
    /\ rout = <<>>
    /\ rclean = TRUE
    /\ last = NoOp

(* The content is the byte stream 10, 20, 30, ...: every content byte differs *)
(* from every other and from every digest byte (an adler32 digest of up to   *)
(* nine of them has no byte that is a multiple of 10 except 0), so a byte    *)
(* that is lost, repeated, moved or taken from a digest shows.  The code     *)
(* never branches on a byte's value.  Chunk(m, k): the k bytes after the     *)
(* first m.                                                                  *)
ContentByte(i) == 10 * i
Chunk(m, k) == [i \in 1 .. k |-> ContentByte(m + i)]

(* The budgets worth trying for a call that may send up to m bytes. *)
Budgets(m) == {-1} \cup (0 .. m)

(* The content places among the physical places a .. b - 1 of a stream of    *)
(* full blocks, each followed by its digest.                                 *)
ContentPlaces(a, b) ==
    Cardinality({p \in a .. b - 1 : p % (checksumInterval + 4) < checksumInterval})

Write ==
    /\ cri.delegate = "none"
    /\ \E k \in 0 .. MaxContent - Len(content) :
       \E budget \in Budgets(5 * k) :
          LET v == Chunk(Len(content), k)
              r == cwiWrite(cwi, sink, v, budget)
          IN  /\ cwi' = r.w
              /\ sink' = r.sink
              /\ content' = content \o Take(v, ContentPlaces(Len(sink), Len(r.sink)))
              /\ wstate' = IF wstate = "open" /\ r.err # "nil" THEN "broken"
                            ELSE wstate
              /\ last' = [NoOp EXCEPT !.op = "Write", !.len = Len(v), !.n = r.n,
                                      !.err = r.err,
                                      !.closedBefore = (cwi.delegate = "err")]
    /\ UNCHANGED <<pow, checksumInterval, sinkCloseCalls, rvars>>

WriterClose ==
    /\ cri.delegate = "none"
    /\ \E budget \in Budgets(4) : \E closeErr \in {"nil", "close failed"} :
          LET r == cwiClose(cwi, sink, budget, closeErr)
          IN  /\ cwi' = r.w
              /\ sink' = r.sink
              /\ sinkCloseCalls' = sinkCloseCalls + r.closed
              /\ wstate' = IF wstate # "open" THEN wstate
                            ELSE IF r.err = "io" THEN "broken" ELSE "closed"
              /\ last' = [NoOp EXCEPT !.op = "WriterClose", !.err = r.err,
                                      !.closedBefore = (cwi.delegate = "err")]
    /\ UNCHANGED <<pow, checksumInterval, content, rvars>>

(* NewChecksummedReader over the bytes the sink holds, once the writer has  *)
(* been closed without an error.                                             *)
NewChecksummedReader ==
    /\ cri.delegate = "none"
    /\ wstate = "closed"
    /\ cri' = [delegate |-> "src", checksumOffset |-> 0]
    /\ src' = sink
    /\ orig' = sink
    /\ pos' = 0
    /\ last' = [NoOp EXCEPT !.op = "NewChecksummedReader"]
    /\ UNCHANGED <<pow, checksumInterval, wvars, srcCalls, srcCloseCalls, rstart, rout,
                   rclean>>

(* NewChecksummedReader over the bytes that reached the sink of a writer     *)
(* whose sink failed: a stream cut short inside a block, inside a digest or  *)
(* before the last digest (no digest byte, or 1, 2 or 3 of them).            *)
NewChecksummedReaderTruncated ==
    /\ cri.delegate = "none"
    /\ wstate = "broken"
    /\ cri' = [delegate |-> "src", checksumOffset |-> 0]
    /\ src' = sink
    /\ orig' = sink
    /\ pos' = 0
    /\ last' = [NoOp EXCEPT !.op = "NewChecksummedReader"]
    /\ UNCHANGED <<pow, checksumInterval, wvars, srcCalls, srcCloseCalls, rstart, rout,
                   rclean>>

(* The bytes a Read reports to its caller: v[:n]. *)
Reported(r) == IF r.n > 0 THEN Take(r.data, r.n) ELSE <<>>

MaxBuf == MaxInterval + 1
(* The offsets tried: from the start, up to one past the longest content;    *)
(* from the current position, two either way; from the end, back over the    *)
(* whole content and one past the end; three with an invalid whence.         *)
SeekOffsets(whence) ==
    CASE whence = 0 -> -1 .. MaxContent + 1
      [] whence = 1 -> -2 .. 2
      [] whence = 2 -> -MaxContent .. 1
      [] OTHER      -> -1 .. 1
MaxPos == 5 * (MaxContent + 1)

Read ==
    /\ cri.delegate # "none"
    /\ \E len \in 0 .. MaxBuf :
          LET r == criRead(cri, pos, len)
          IN  /\ cri' = r.cri
              /\ pos' = r.pos
              /\ srcCalls' = r.calls
              /\ rstart' = IF r.err \in {"nil", "EOF"} THEN rstart ELSE -1
              /\ rout' = IF rstart >= 0 THEN rout \o Reported(r) ELSE rout
              /\ rclean' = (rclean /\ r.err = "nil")
              /\ last' = [NoOp EXCEPT !.op = "Read", !.len = len, !.n = r.n,
                                      !.err = r.err,
                                      !.closedBefore = (cri.delegate = "err")]
    /\ UNCHANGED <<pow, checksumInterval, wvars, src, orig, srcCloseCalls>>

SeekWith(whences) ==
    /\ cri.delegate # "none"
    /\ \E whence \in whences :
       \E offset \in SeekOffsets(whence) :
          LET r == criSeek(cri, pos, offset, whence)
          IN  /\ r.pos <= MaxPos
              /\ cri' = r.cri
              /\ pos' = r.pos
              /\ srcCalls' = r.calls
              /\ rstart' = IF whence = 0 /\ r.err = "nil" /\ src = orig
                           THEN offset ELSE -1
              /\ rout' = <<>>
              /\ rclean' = (r.err = "nil")
              /\ last' = [NoOp EXCEPT !.op = "Seek", !.offset = offset,
                                      !.whence = whence, !.n = r.n, !.err = r.err,
                                      !.closedBefore = (cri.delegate = "err")]
    /\ UNCHANGED <<pow, checksumInterval, wvars, src, orig, srcCloseCalls>>

Seek == SeekWith(0 .. 3)

SeekStart == SeekWith({0})

Verify ==
    /\ cri.delegate # "none"
    /\ LET r == criVerify(cri, pos)
       IN  /\ pos' = r.pos
           /\ srcCalls' = r.calls
           /\ rstart' = IF r.err = "nil" THEN rstart ELSE -1
           /\ rclean' = (rclean /\ r.err = "nil")
           /\ last' = [NoOp EXCEPT !.op = "Verify", !.ok = r.ok, !.err = r.err,
                                   !.read = r.read, !.restore = r.restore,
                                   !.closedBefore = (cri.delegate = "err")]
    /\ UNCHANGED <<pow, checksumInterval, wvars, cri, src, orig, srcCloseCalls, rout>>

ReaderClose ==
    /\ cri.delegate # "none"
    /\ \E closeErr \in {"nil", "close failed"} :
          LET r == criClose(cri, closeErr)
          IN  /\ cri' = r.cri
              /\ srcCalls' = r.closed
              /\ srcCloseCalls' = srcCloseCalls + r.closed
              /\ last' = [NoOp EXCEPT !.op = "ReaderClose", !.err = r.err,
                                      !.closedBefore = (cri.delegate = "err")]
    /\ UNCHANGED <<pow, checksumInterval, wvars, src, orig, pos, rstart, rout, rclean>>

(* Corruption at the source: one bit of one stored byte flips (or flips back). *)
FlipBit(b) == IF b % 2 = 0 THEN b + 1 ELSE b - 1

Corrupt ==
    /\ cri.delegate = "src"
    /\ \E i \in 1 .. Len(src) :
          /\ src' = [src EXCEPT ![i] = FlipBit(src[i])]
          /\ Cardinality({j \in 1 .. Len(src) : src'[j] # orig[j]}) <= 1
    /\ rstart' = -1
    /\ rout' = <<>>
    /\ last' = [NoOp EXCEPT !.op = "Corrupt"]
    /\ UNCHANGED <<pow, checksumInterval, wvars, cri, orig, pos, srcCalls, srcCloseCalls,
                   rclean>>

Next ==
    \/ Write
    \/ WriterClose
    \/ NewChecksummedReader
    \/ Read
    \/ Seek
    \/ Verify
    \/ ReaderClose

(* Corruption at the source, with the reader seeking from the start,         *)
(* reading and verifying.                                                    *)
NextCorrupt ==
    \/ Write
    \/ WriterClose
    \/ NewChecksummedReader
    \/ Read
    \/ SeekStart
    \/ Verify
    \/ Corrupt

(* The reader over a stream that was cut short. *)
NextTruncated ==
    \/ Write
    \/ WriterClose
    \/ NewChecksummedReaderTruncated
    \/ Read
    \/ SeekStart
    \/ Verify

Spec == Init /\ [][Next]_vars

SpecTruncated == Init /\ [][NextTruncated]_vars

(* The arguments tried for NextHighestPowerOfTwo: 0, every power of two,     *)
(* every sum of two powers of two, every 2^k - 1.                            *)
PowInputs ==
    {{}} \cup {{i, j} : i \in BitPlaces, j \in BitPlaces}
         \cup {0 .. k : k \in BitPlaces}

InitPow ==
    /\ pow \in [v : PowInputs, out : {{}}, done : {FALSE}]
    /\ checksumInterval = 1
    /\ cwi = [delegate |-> "sink", checksumOffset |-> 0, hash |-> newHash]
    /\ sink = <<>> /\ sinkCloseCalls = 0 /\ content = <<>> /\ wstate = "open"
    /\ cri = [delegate |-> "none", checksumOffset |-> 0]
    /\ src = <<>> /\ orig = <<>> /\ pos = 0 /\ srcCalls = 0 /\ srcCloseCalls = 0
    /\ rstart = 0 /\ rout = <<>> /\ rclean = TRUE /\ last = NoOp

CallNextHighestPowerOfTwo ==
    /\ ~pow.done
    /\ pow' = [pow EXCEPT !.out = NextHighestPowerOfTwo(pow.v), !.done = TRUE]
    /\ UNCHANGED <<checksumInterval, wvars, rvars, last>>

NextPow == CallNextHighestPowerOfTwo

SpecPow == InitPow /\ [][NextPow]_vars

SpecCorrupt == Init /\ [][NextCorrupt]_vars
-----------------------------------------------------------------------------
(* The reference framing, written without the writer's operators.            *)

RECURSIVE SumSeq(_)
SumSeq(s) == IF s = <<>> THEN 0 ELSE Head(s) + SumSeq(Tail(s))

RECURSIVE WeightedSum(_)
WeightedSum(s) == IF s = <<>> THEN 0 ELSE Len(s) * Head(s) + WeightedSum(Tail(s))

(* The adler32 digest of a block in closed form, most significant byte first. *)
RefDigest(block) ==
    LET a == (1 + SumSeq(block)) % 65521
        b == (Len(block) + WeightedSum(block)) % 65521
    IN  <<b \div 256, b % 256, a \div 256, a % 256>>

(* Blocks of interval content bytes, the last possibly shorter, each followed *)
(* by its digest.                                                             *)
RECURSIVE RefFrame(_, _)
RefFrame(c, interval) ==
    IF c = <<>> THEN <<>>
    ELSE LET k == Min(interval, Len(c))
         IN  Take(c, k) \o RefDigest(Take(c, k)) \o RefFrame(Drop(c, k), interval)

CeilDiv(a, b) == (a + b - 1) \div b

(* The physical offset of logical offset l, and the logical offset of a      *)
(* physical offset p that is not inside a digest.                            *)
Physical(l) == l + 4 * (l \div checksumInterval)
Logical(p) == p - 4 * (p \div (checksumInterval + 4))

-----------------------------------------------------------------------------
(* C1: Round trip.  When the writer has accepted some content, in any split  *)
(* over Write calls, and was closed, and a reader over the bytes the sink    *)
(* received has been read from offset 0 with any buffer lengths until a Read *)
(* returned io.EOF, the bytes the Reads reported, in order, are exactly the  *)
(* content: nothing lost, nothing added, no digest byte among them.          *)
C1_RoundTrip ==
    (rstart = 0 /\ last.op = "Read" /\ last.err = "EOF") => rout = content

(* The case: six content bytes, two to a block, read back to the end. *)
C1_Witness ==
    /\ rstart = 0 /\ last.op = "Read" /\ last.err = "EOF"
    /\ checksumInterval = 2 /\ Len(content) = 6 /\ rout = content

(* C2: Writer layout.  Once Close has been called on a writer whose Writes   *)
(* all succeeded, the sink holds the reference framing of the content        *)
(* written: blocks of interval bytes, the last possibly shorter and never    *)
(* empty, each followed by the big-endian digest of that block alone; in     *)
(* all C + 4*ceil(C/interval) bytes, however the content was split.          *)
C2_WriterLayout ==
    wstate = "closed" =>
        /\ sink = RefFrame(content, checksumInterval)
        /\ Len(sink) = Len(content) + 4 * CeilDiv(Len(content), checksumInterval)

(* The case: a closed writer with a short last block after a full one. *)
C2_Witness ==
    /\ wstate = "closed" /\ checksumInterval = 3 /\ Len(content) = 5
    /\ Len(sink) = 13

(* C3: Absolute seek.  Seek(L, from start) that the source accepts leaves    *)
(* the source at physical offset L + 4*floor(L/interval) and returns L.      *)
C3_AbsoluteSeek ==
    (last.op = "Seek" /\ last.whence = 0 /\ ~last.closedBefore /\ last.err = "nil")
        => (pos = Physical(last.offset) /\ last.n = last.offset)

(* The cursor is at a content byte, or at the start of a block, after        *)
(* nothing but successful calls since the last Seek.                         *)
AtContent ==
    /\ cri.delegate = "src"
    /\ rclean
    /\ pos % (checksumInterval + 4) < checksumInterval

(* C4: Relative seek.  With the cursor at logical offset L and L + d >= 0,   *)
(* Seek(d, from current) returns L + d and leaves the source at physical     *)
(* offset (L+d) + 4*floor((L+d)/interval); Seek(0, from current) returns L   *)
(* and does not move the source.                                             *)
C4_RelativeSeek ==
    [][(/\ AtContent
        /\ last'.op = "Seek" /\ last'.whence = 1
        /\ Logical(pos) + last'.offset >= 0)
       => (/\ last'.err = "nil"
           /\ last'.n = Logical(pos) + last'.offset
           /\ pos' = Physical(Logical(pos) + last'.offset))]_vars

(* C5: From-end seek.  Over the stream the writer produced for content of    *)
(* length C, Seek(d, from end) with C + d >= 0 returns C + d.                *)
C5_FromEndSeek ==
    (/\ last.op = "Seek" /\ last.whence = 2 /\ ~last.closedBefore
     /\ src = RefFrame(content, checksumInterval)
     /\ Len(content) + last.offset >= 0)
        => (last.err = "nil" /\ last.n = Len(content) + last.offset)

(* C6: Seek consistency.  After Seek(L, from start) with 0 <= L <= C, over   *)
(* the stream the writer produced, once the Reads that followed have         *)
(* gathered interval bytes or met io.EOF, the first interval bytes they      *)
(* reported (all of them, if fewer) are content[L .. min(L+interval, C)).    *)
C6_SeekConsistency ==
    (/\ rstart >= 0 /\ rstart <= Len(content)
     /\ \/ Len(rout) >= checksumInterval
        \/ last.op = "Read" /\ last.err = "EOF")
        => Take(rout, Min(checksumInterval, Len(rout)))
             = SubSeq(content, rstart + 1,
                      Min(rstart + checksumInterval, Len(content)))

(* The case: a seek into the middle of a block, then Reads across the        *)
(* digest that follows it.                                                   *)
C6_Witness ==
    /\ checksumInterval = 3 /\ Len(content) = 6 /\ rstart = 2
    /\ last.op = "Read" /\ Len(rout) >= 3
    /\ Take(rout, 3) = SubSeq(content, 3, 5)

(* The block the cursor is in: its number, the length of its content, and    *)
(* whether the cursor is at one of its content bytes.                        *)
BlockOf(p) == p \div (checksumInterval + 4)
BlockLen(k) == Min(checksumInterval, Len(content) - k * checksumInterval)
InBlock(p) ==
    /\ BlockLen(BlockOf(p)) > 0
    /\ p % (checksumInterval + 4) < BlockLen(BlockOf(p))

(* Every stored byte of block k, content and digest, is as it was written. *)
Intact(k) ==
    \A j \in k * (checksumInterval + 4) + 1
             .. k * (checksumInterval + 4) + BlockLen(k) + 4 : src[j] = orig[j]

(* C7: Verify.  With the cursor at a content byte of block k, reached by a   *)
(* Seek or by Reads, Verify returns no error, and returns true exactly when  *)
(* no stored byte of block k, content or digest, has been changed: true for  *)
(* the stream as written, full blocks and the short last one; false once a   *)
(* byte of block k is changed; the same whatever happened to other blocks.   *)
C7_Verify ==
    [][(/\ cri.delegate = "src" /\ rclean /\ InBlock(pos)
        /\ last'.op = "Verify")
       => (last'.err = "nil" /\ last'.ok = Intact(BlockOf(pos)))]_vars

(* The case: a changed byte in the short last block, the cursor at the       *)
(* second content byte of that block, and Verify answering false.            *)
C7_Witness ==
    /\ last.op = "Verify" /\ last.err = "nil" /\ ~last.ok
    /\ checksumInterval = 3 /\ Len(content) = 5 /\ pos = 8 /\ rclean
    /\ ~Intact(1) /\ Intact(0)

(* C8: Verify leaves the cursor alone.  When Verify returns no error, match  *)
(* or mismatch, the source's position and the reader's offset in the block   *)
(* are what they were before the call.                                       *)
C8_VerifyKeepsCursor ==
    [][(last'.op = "Verify" /\ last'.err = "nil")
       => (pos' = pos /\ cri'.checksumOffset = cri.checksumOffset)]_vars

(* The case: Verify inside a block, away from its start, answering false. *)
C8_Witness ==
    /\ last.op = "Verify" /\ last.err = "nil" /\ ~last.ok
    /\ cri.checksumOffset > 0 /\ pos > checksumInterval + 4

(* C9: The closed reader.  Once Close has been called, whatever the source's *)
(* Close returned, every Read (of any length, 0 too), Seek (of any whence),  *)
(* Verify and Close returns an error, makes no call on the original source,  *)
(* and leaves the reader closed.  (The source has received a Close exactly   *)
(* when the reader's Close has been called.)                                 *)
C9_ReaderClosed ==
    [][srcCloseCalls > 0
       => (/\ last'.op \in {"Read", "Seek", "Verify", "ReaderClose"}
           /\ last'.err \notin {"nil", "panic"}
           /\ srcCalls' = 0
           /\ pos' = pos /\ src' = src /\ srcCloseCalls' = srcCloseCalls
           /\ cri'.delegate = "err")]_vars

(* The case: a Read of an empty buffer on a reader whose source's Close had  *)
(* failed.                                                                   *)
C9_Witness ==
    /\ last.op = "Read" /\ last.len = 0 /\ srcCloseCalls = 1
    /\ last.err = "closed" /\ srcCalls = 0

(* C10: The closed writer.  Once Close has been called, every Write, of any  *)
(* length, the empty slice too, and every Close returns an error, and the    *)
(* original sink receives no byte and no Close.                              *)
C10_WriterClosed ==
    [][(wstate = "closed" /\ last'.op \in {"Write", "WriterClose"})
       => (/\ last'.err # "nil"
           /\ sink' = sink /\ sinkCloseCalls' = sinkCloseCalls)]_vars

(* C11: The poisoned writer.  Once a write to the sink has failed, inside    *)
(* Write or inside Close (a content write or a digest write), every later    *)
(* Write, of any length, and every later Close returns an error, and the     *)
(* original sink receives no further byte.                                   *)
C11_WriterPoisoned ==
    [][(wstate = "broken" /\ last'.op \in {"Write", "WriterClose"})
       => (last'.err # "nil" /\ sink' = sink)]_vars

(* C12: The invalid whence.  On a reader that has not been closed, a Seek    *)
(* with a whence other than 0, 1 and 2 returns an error, whatever the        *)
(* offset, leaves the source's position and the reader's checksumOffset as   *)
(* they were, and returns the source's physical position.                    *)
C12_InvalidWhence ==
    [][(last'.op = "Seek" /\ last'.whence \notin {0, 1, 2} /\ cri.delegate = "src")
       => (/\ last'.err # "nil"
           /\ pos' = pos /\ src' = src /\ cri' = cri
           /\ last'.n = pos)]_vars

(* The case: the cursor inside a block that is not the first, and a Seek     *)
(* with whence 3 and a non-zero offset.                                      *)
C12_Witness ==
    /\ last.op = "Seek" /\ last.whence = 3 /\ last.offset = 1
    /\ cri.delegate = "src" /\ last.err = "invalid whence"
    /\ pos > checksumInterval + 4 /\ cri.checksumOffset > 0 /\ last.n = pos

(* The cursor is where a Seek puts it: on a content byte's place, with the   *)
(* reader's checksumOffset the place within the block.                       *)
CursorTracked ==
    /\ cri.delegate = "src"
    /\ cri.checksumOffset = pos % (checksumInterval + 4)
    /\ cri.checksumOffset < checksumInterval

(* The bytes the source holds from the start of the cursor's block on. *)
BlockAvail == Max(Len(src) - (pos - cri.checksumOffset), 0)

(* C13: The truncated trailing digest.  When a Read takes the rest of a full *)
(* block's content, so that checksumOffset reaches checksumInterval, and the *)
(* source ends with 0, 1, 2 or 3 digest bytes after the block, the Read      *)
(* returns the number of content bytes it put into the buffer and io.EOF.    *)
C13_TruncatedDigest ==
    [][(/\ last'.op = "Read" /\ CursorTracked
        /\ cri.checksumOffset + last'.len >= checksumInterval
        /\ BlockAvail >= checksumInterval /\ BlockAvail < checksumInterval + 4)
       => (/\ last'.n = checksumInterval - cri.checksumOffset
           /\ last'.err = "EOF")]_vars

(* The order of uint64 values and the powers of two, written on the sets of  *)
(* bit places without the function's operators.                              *)
Highest(x) == CHOOSE m \in x : \A j \in x : m >= j
AtLeast(x, y) == x = y \/ Highest((x \ y) \cup (y \ x)) \in x
IsPowerOfTwo(x) == Cardinality(x) = 1
SmallestPowerAtLeast(x, v) ==
    /\ IsPowerOfTwo(x)
    /\ AtLeast(x, v)
    /\ \A k \in BitPlaces : AtLeast({k}, v) => AtLeast({k}, x)

(* C14, as claimed: for every uint64 v > 0, NextHighestPowerOfTwo(v) is the  *)
(* smallest power of two that is at least v.                                 *)
C14_EveryPositive ==
    (pow.done /\ pow.v # {}) => SmallestPowerAtLeast(pow.out, pow.v)

(* C14, amended: for every v with 0 < v <= 2^63, NextHighestPowerOfTwo(v) is *)
(* the smallest power of two that is at least v (v itself when v is a power  *)
(* of two); for every v > 2^63 it is 0.                                      *)
C14_NextHighestPowerOfTwo ==
    (pow.done /\ pow.v # {})
    => IF AtLeast({WordBits - 1}, pow.v)
       THEN SmallestPowerAtLeast(pow.out, pow.v)
       ELSE pow.out = {}

(* The case: v = 2^40 + 2^3, for which the function returns 2^41. *)
C14_Witness == pow.done /\ pow.v = {3, 40} /\ pow.out = {41}

(* The writer's state after L content bytes: the place in the block, the     *)
(* bytes at the sink, and the hash of the bytes of the block in progress.    *)
WriterStateFor(l) ==
    /\ cwi.checksumOffset = l % checksumInterval
    /\ Len(sink) = l + 4 * (l \div checksumInterval)
    /\ cwi.hash = HashWrite(newHash, Drop(content, l - (l % checksumInterval)))

(* C15: The writer's state.  After every Write that returned no error, with  *)
(* L the content bytes accepted so far, checksumOffset is L mod              *)
(* checksumInterval, the sink holds L + 4 * floor(L / checksumInterval)      *)
(* bytes, and the hash has consumed the last L mod checksumInterval content  *)
(* bytes and nothing else.                                                   *)
C15_WriterState ==
    (last.op = "Write" /\ last.err = "nil") => WriterStateFor(Len(content))

(* C16: The count of Write.  In every outcome 0 <= n <= len(v) and n is the  *)
(* number of content bytes the sink accepted during the call, the bytes of   *)
(* digests not counted, also when it is a digest write that fails; and when  *)
(* the sink has accepted everything the call had to send, Write returns      *)
(* (len(v), nil).                                                            *)
C16_WriteCount ==
    [][last'.op = "Write"
       => (/\ 0 <= last'.n /\ last'.n <= last'.len
           /\ last'.n = ContentPlaces(Len(sink), Len(sink'))
           /\ (wstate = "open" /\ Len(sink') = Physical(Len(content) + last'.len))
              => (last'.n = last'.len /\ last'.err = "nil"))]_vars

(* The case: a Write that ends a block, the sink taking the content and a    *)
(* part of the digest before it fails.                                       *)
C16_Witness ==
    /\ last.op = "Write" /\ last.err = "io" /\ last.n = last.len /\ last.n > 1
    /\ Len(sink) % (checksumInterval + 4) > checksumInterval

(* C17: Verify restores the position on every path.  Whenever Verify has     *)
(* asked the source for the block, it has sought back to the position it     *)
(* saved before it returns, whether the digest matched, did not match, or    *)
(* the block read ended at the end of the source or in an error.             *)
C17_RestoreOnEveryPath ==
    (last.op = "Verify" /\ last.read) => last.restore

(* The bytes the source holds from the start of the cursor's block on. *)
BlockBytes == SubSeq(src, pos - cri.checksumOffset + 1, Len(src))

(* C18: Verify on a short last block.  When the source ends n bytes after    *)
(* the start of the cursor's block, 1 <= n < checksumInterval + 4, Verify    *)
(* returns no error and a boolean: true exactly when the last 4 of the n     *)
(* bytes are the digest of the n - 4 bytes before them.                      *)
C18_VerifyShortBlock ==
    [][(/\ last'.op = "Verify" /\ CursorTracked
        /\ BlockAvail >= 1 /\ BlockAvail < checksumInterval + 4)
       => (/\ last'.err = "nil"
           /\ BlockAvail >= 4
              => last'.ok = (Drop(BlockBytes, BlockAvail - 4)
                             = RefDigest(Take(BlockBytes, BlockAvail - 4))))]_vars

(* C19: The bounds of Read's count.  From every cursor a Seek that returned  *)
(* no error has set, also past the end of the content, and for every buffer  *)
(* length, Read returns n with 0 <= n <= min(len(v), checksumInterval -      *)
(* checksumOffset): never negative, never across the end of a block.         *)
C19_ReadCount ==
    [][(/\ last'.op = "Read" /\ cri.delegate = "src"
        /\ last.op = "Seek" /\ last.err = "nil")
       => (/\ 0 <= last'.n
           /\ last'.n <= Min(last'.len, checksumInterval - cri.checksumOffset))]_vars

(* C20: The reader's offset tracking.  On a stream the writer produced,      *)
(* after any sequence of Seek and Read calls that returned no error, the     *)
(* reader's checksumOffset is the source's position modulo                   *)
(* checksumInterval + 4 and lies in 0 .. checksumInterval - 1.               *)
C20_OffsetTracking ==
    (cri.delegate = "src" /\ src = orig /\ rclean /\ last.op \in {"Seek", "Read"})
    => (/\ cri.checksumOffset = pos % (checksumInterval + 4)
        /\ 0 <= cri.checksumOffset /\ cri.checksumOffset < checksumInterval)
=============================================================================
